---- MODULE Spec2Model ----
(***************************************************************************)
(* A model of src/index.js: the single-repository client CDR, the error    *)
(* type CDRError, and the fan-out / fan-in chain CDRs -> CDRsResponse ->   *)
(* CDRsFormatter built on Promise.all.                                     *)
(*                                                                         *)
(* One behaviour is one call: either cdr.query(aql) on a single client     *)
(* (SingleSpec) or cdrs.query(aql) followed by all() and concat() on a     *)
(* list of n clients (Spec).  HTTP exchanges and body decodes complete in  *)
(* any order; promise reactions run from a FIFO microtask queue that is    *)
(* drained before the next I/O event is delivered.                         *)
(***************************************************************************)
EXTENDS Integers, Sequences, FiniteSets, TLC

\* Largest client list handed to the CDRs constructor.
MaxClients == 3

\* Query strings a caller may pass: to one client, to a list of clients.
AQLs == {"SELECT a", "SELECT b"}
JoinAQLs == {"SELECT a"}

----------------------------------------------------------------------------
(* Values *)

Undefined == [kind |-> "undefined"]

\* A decoded JSON object: a set of <<key, value>> pairs.
JsonValue(o) == [kind |-> "json", obj |-> o]

\* A raw text body.
TextValue(s) == [kind |-> "text", text |-> s]

\* The promise object returned by res.json() / res.text() of exchange i.
PromiseRef(i) == [kind |-> "Promise", id |-> i]

\* The object literal {} of _checkStatus.
EmptyObject == {}

----------------------------------------------------------------------------
(* The HTTP responses a repository may send *)

Statuses == {200, 201, 204, 401, 500}

StatusText(s) ==
  CASE s = 200 -> "OK"
    [] s = 201 -> "Created"
    [] s = 204 -> "No Content"
    [] s = 401 -> "Unauthorized"
    [] OTHER   -> "Internal Server Error"

\* No content-type header: headers.get('content-type') is null, modelled <<>>.
NullHeader == <<>>
JsonContentType == <<"application/json; charset=utf-8">>
HtmlContentType == <<"text/html">>
ContentTypes == {NullHeader, JsonContentType, HtmlContentType}

BodyRows    == "{\"rows\":\"2\"}"
BodyEmpty   == "{}"
BodyUnauth  == "{\"error\":\"unauthorized\"}"
BodyHtml    == "<html>oops</html>"
Bodies == {BodyRows, BodyEmpty, BodyUnauth, BodyHtml}

Response(s, ct, b) ==
  [status |-> s, statusText |-> StatusText(s), contentType |-> ct, body |-> b]

NoResponse == Response(0, NullHeader, "")

\* Every response of the single-client specification.
Responses == {Response(x[1], x[2], x[3]) : x \in Statuses \X ContentTypes \X Bodies}

\* The responses of the multi-client specification: one per path of query.
JoinResponses ==
  { Response(200, JsonContentType, BodyRows),
    Response(200, JsonContentType, BodyHtml),
    Response(204, NullHeader, BodyRows),
    Response(401, JsonContentType, BodyUnauth),
    Response(500, NullHeader, BodyHtml) }

\* Transport failures of fetch (no response at all).
TransportCodes == {"ECONNREFUSED", "ETIMEDOUT"}
JoinTransportCodes == {"ECONNREFUSED"}

\* The rejection value of fetch for exchange i: a fresh error object.
FetchError(code, i) == [kind |-> "FetchError", code |-> code, id |-> i]

----------------------------------------------------------------------------
(* node-fetch's Response, as the code uses it *)

\* res.ok
Ok(res) == res.status >= 200 /\ res.status <= 299

\* res.headers.get('content-type')
HeadersGet(res) == res.contentType

\* <header>.includes('application/json'), on the header values above
Includes(ct) == ct = JsonContentType

\* JSON.parse, on the bodies above
JsonParse(text) ==
  CASE text = BodyRows   -> [ok |-> TRUE,  value |-> JsonValue({<<"rows", "2">>})]
    [] text = BodyEmpty  -> [ok |-> TRUE,  value |-> JsonValue({})]
    [] text = BodyUnauth -> [ok |-> TRUE,  value |-> JsonValue({<<"error", "unauthorized">>})]
    [] OTHER             -> [ok |-> FALSE, value |-> Undefined]

\* How the promise of res.json() / res.text() of exchange i settles.
DecodeOutcome(decoder, text, i) ==
  IF decoder = "text"
    THEN [state |-> "fulfilled", value |-> TextValue(text)]
    ELSE IF JsonParse(text).ok
      THEN [state |-> "fulfilled", value |-> JsonParse(text).value]
      ELSE [state |-> "rejected",
            value |-> [kind |-> "FetchError", code |-> "invalid-json", id |-> i]]

----------------------------------------------------------------------------
(* CDRError and CDR *)

\* super(res.status + ' ' + res.statusText)
Message(res) == ToString(res.status) \o " " \o res.statusText

\* new CDRError(res), for exchange i.  The constructor either completes, with
\* body the promise of the decode it started, or throws the TypeError of
\* calling includes on null.
CDRError(res, i) ==
  IF HeadersGet(res) = NullHeader
    THEN [threw |-> TRUE, decoder |-> "none",
          value |-> [kind |-> "TypeError", id |-> i]]
    ELSE [threw |-> FALSE,
          decoder |-> IF Includes(HeadersGet(res)) THEN "json" ELSE "text",
          value |-> [kind |-> "CDRError", message |-> Message(res),
                     body |-> PromiseRef(i), id |-> i]]

\* (mutant) no 204 branch: a 204 is ok, so its body is decoded as JSON.
_checkStatusWithout204(res, i) ==
  IF ~Ok(res)
    THEN [type |-> "throw", value |-> CDRError(res, i).value,
          decoder |-> CDRError(res, i).decoder]
    ELSE [type |-> "adopt", value |-> Undefined, decoder |-> "json"]

\* _checkStatus(res), for exchange i: what the then-callback does.
\*   "return": returns value; "throw": throws value;
\*   "adopt": returns the promise of res.json().
\* decoder is the body decode the call started ("none": the body is not read).
_checkStatus(res, i) ==
  IF res.status = 204
    THEN [type |-> "return", value |-> JsonValue(EmptyObject), decoder |-> "none"]
    ELSE IF ~Ok(res)
      THEN [type |-> "throw", value |-> CDRError(res, i).value,
            decoder |-> CDRError(res, i).decoder]
      ELSE [type |-> "adopt", value |-> Undefined, decoder |-> "json"]

\* this.url of client i.
Url(i) == "https://cdr" \o ToString(i)

\* this.authentication of client i, computed once by the constructor.  The
\* base64 text of username:password is kept as an opaque token per client:
\* no property reads into it.
Authentication(i) == "Basic " \o "credentials" \o ToString(i)

\* The request CDR.query hands to fetch; body is the object { aql }.
Request(i, q) ==
  [client |-> i, url |-> Url(i) \o "/rest/v1/query", method |-> "post",
   body |-> {<<"aql", q>>},
   headers |-> {<<"Content-Type", "application/json">>,
                <<"Authorization", Authentication(i)>>}]

\* (mutant) the last client is skipped.
DispatchSkipsLast(k, q) == [i \in 1..(IF k > 1 THEN k - 1 ELSE k) |-> Request(i, q)]

\* cdrs.map(c => c.query(aql)): the requests issued, in client order.
Dispatch(k, q) == [i \in 1..k |-> Request(i, q)]

\* (mutant) an onRejected handler wraps the transport failure.
WrapInCDRError(err) ==
  [kind |-> "CDRError", message |-> err.code, body |-> err, id |-> err.id]

\* fetch(...).then(onFulfilled) has no onRejected: a rejection passes through.
PassThrough(err) == err

----------------------------------------------------------------------------
VARIABLES
  n,            \* number of clients held (this.cdrs.length)
  callerPc,     \* "start" | "queried" | "joined" | "concatenated"
  aql,          \* the query string of the call
  sent,         \* the HTTP requests issued, in order
  stage,        \* per exchange: "idle" | "inflight" | "decoding" | "done"
  resp,         \* per exchange: the response fetch resolved with
  fetchReason,  \* per exchange: the reason fetch rejected with
  bodyPromise,  \* per exchange: the promise of res.json() / res.text()
  pstate,       \* per client: state of the promise returned by query
  pvalue,       \* per client: its value or reason
  values,       \* Promise.all: the result array
  remaining,    \* Promise.all: elements not yet resolved
  aggState,     \* the promise of Promise.all: "none" until all() is called
  aggValue,     \* its value
  aggReason,    \* its reason
  jobs,         \* microtask queue: reactions of Promise.all, by client
  firstSettled, \* log: the client whose query promise settled first (0: none)
  firstFailed,  \* log: the client whose query promise rejected first (0: none)
  joinFailed    \* log: the clients already rejected when all() was called

vars == <<n, callerPc, aql, sent, stage, resp, fetchReason, bodyPromise, pstate, pvalue,
          values, remaining, aggState, aggValue, aggReason, jobs,
          firstSettled, firstFailed, joinFailed>>

httpVars == <<stage, resp, fetchReason, bodyPromise>>
aggVars  == <<values, remaining, aggState, aggValue, aggReason>>
logVars  == <<firstSettled, firstFailed, joinFailed>>

Clients == 1..n

NoBody == [state |-> "none", decoder |-> "none", value |-> Undefined]

InitFor(k) ==
  /\ n = k
  /\ callerPc = "start"
  /\ aql = ""
  /\ sent = <<>>
  /\ stage = [i \in 1..k |-> "idle"]
  /\ resp = [i \in 1..k |-> NoResponse]
  /\ fetchReason = [i \in 1..k |-> Undefined]
  /\ bodyPromise = [i \in 1..k |-> NoBody]
  /\ pstate = [i \in 1..k |-> "none"]
  /\ pvalue = [i \in 1..k |-> Undefined]
  /\ values = <<>>
  /\ remaining = 0
  /\ aggState = "none"
  /\ aggValue = <<>>
  /\ aggReason = Undefined
  /\ jobs = <<>>
  /\ firstSettled = 0
  /\ firstFailed = 0
  /\ joinFailed = {}

\* new CDRs(cdrs) on a list of 0..MaxClients clients.
Init == \E k \in 0..MaxClients : InitFor(k)

\* A single new CDR(config).
SingleInit == InitFor(1)

----------------------------------------------------------------------------
(* Promises *)

\* A query promise settles: its Promise.all reaction, if all() has subscribed
\* one, is queued as a microtask.
SettleQuery(i, st, v) ==
  /\ pstate' = [pstate EXCEPT ![i] = st]
  /\ pvalue' = [pvalue EXCEPT ![i] = v]
  /\ jobs' = IF aggState # "none" THEN Append(jobs, i) ELSE jobs
  /\ firstSettled' = IF firstSettled = 0 THEN i ELSE firstSettled
  /\ firstFailed' = IF firstFailed = 0 /\ st = "rejected" THEN i ELSE firstFailed

\* (mutant) the value is stored at the next free slot, in arrival order.
SetElementInArrivalOrder(vals, i, v) == [vals EXCEPT ![n - remaining + 1] = v]

\* Promise.all's resolve-element function stores the value at the index of
\* its promise.
SetElement(vals, i, v) == [vals EXCEPT ![i] = v]

\* (mutant) off by one: resolves with one element still missing.
AllButOneResolved(rem) == rem <= 1

\* Promise.all resolves once no element remains.
AllResolved(rem) == rem = 0

\* (mutant) an empty list is never settled.
PromiseAllAlwaysPending(k) == "pending"

\* Promise.all of k promises: settled at once for an empty list.
PromiseAllInitial(k) == IF k = 0 THEN "fulfilled" ELSE "pending"

\* The fulfilment reaction of Promise.all for client i.
ResolveElement(i) ==
  /\ values' = SetElement(values, i, pvalue[i])
  /\ remaining' = remaining - 1
  /\ IF AllResolved(remaining') /\ aggState = "pending"
       THEN /\ aggState' = "fulfilled"
            /\ aggValue' = values'
       ELSE UNCHANGED <<aggState, aggValue>>
  /\ UNCHANGED aggReason

\* (mutant) every rejection overwrites the reason: the last failure wins.
RejectAggregateLastWins(i) ==
  /\ aggState' = "rejected"
  /\ aggReason' = pvalue[i]
  /\ UNCHANGED <<values, remaining, aggValue>>

\* The rejection reaction of Promise.all for client i: a settled promise
\* ignores it.
RejectAggregate(i) ==
  /\ IF aggState = "pending"
       THEN /\ aggState' = "rejected"
            /\ aggReason' = pvalue[i]
       ELSE UNCHANGED <<aggState, aggReason>>
  /\ UNCHANGED <<values, remaining, aggValue>>

\* The clients of s whose query promise has settled, in the order of s.
SettledIn(s) == SelectSeq(s, LAMBDA i : pstate[i] \in {"fulfilled", "rejected"})

----------------------------------------------------------------------------
(* The caller *)

\* The effect of calling query(q) on each of the n clients: fetch is called
\* synchronously, the promise returned is pending.
StartQueries(q) ==
  /\ callerPc = "start"
  /\ callerPc' = "queried"
  /\ aql' = q
  /\ sent' = Dispatch(n, q)
  /\ stage' = [i \in Clients |-> "inflight"]
  /\ pstate' = [i \in Clients |-> "pending"]
  /\ UNCHANGED <<n, resp, fetchReason, bodyPromise, pvalue, aggVars, jobs,
                 logVars>>

\* cdrs.query(q)
CDRsQuery(q) == StartQueries(q)

\* cdr.query(q) on the one client of SingleSpec
CDRQuery(q) == n = 1 /\ StartQueries(q)

\* response.all(): Promise.all(this.promises) subscribes to every promise in
\* list order; the reactions of the promises already settled are queued now.
All ==
  /\ callerPc = "queried"
  /\ callerPc' = "joined"
  /\ values' = [i \in Clients |-> Undefined]
  /\ remaining' = n
  /\ aggState' = PromiseAllInitial(n)
  /\ aggValue' = <<>>
  /\ jobs' = jobs \o SettledIn([i \in Clients |-> i])
  /\ joinFailed' = {i \in Clients : pstate[i] = "rejected"}
  /\ UNCHANGED <<n, aql, sent, httpVars, pstate, pvalue, aggReason,
                 firstSettled, firstFailed>>

\* formatter.concat(): returns this.promise.
Concat ==
  /\ callerPc = "joined"
  /\ callerPc' = "concatenated"
  /\ UNCHANGED <<n, aql, sent, httpVars, pstate, pvalue, aggVars, jobs,
                 logVars>>

----------------------------------------------------------------------------
(* I/O events: delivered one at a time, with the microtask queue empty *)

\* fetch of exchange i rejects: no response.
FetchFails(i, code) ==
  /\ stage[i] = "inflight"
  /\ jobs = <<>>
  /\ stage' = [stage EXCEPT ![i] = "done"]
  /\ fetchReason' = [fetchReason EXCEPT ![i] = FetchError(code, i)]
  /\ SettleQuery(i, "rejected", PassThrough(FetchError(code, i)))
  /\ UNCHANGED <<n, callerPc, aql, sent, resp, bodyPromise, aggVars, joinFailed>>

\* fetch of exchange i resolves with res; the then-callback runs _checkStatus.
FetchResponds(i, res) ==
  /\ stage[i] = "inflight"
  /\ jobs = <<>>
  /\ resp' = [resp EXCEPT ![i] = res]
  /\ LET out == _checkStatus(res, i) IN
       /\ stage' = [stage EXCEPT ![i] =
                      IF out.decoder = "none" THEN "done" ELSE "decoding"]
       /\ bodyPromise' = [bodyPromise EXCEPT ![i] =
                      IF out.decoder = "none" THEN NoBody
                      ELSE [state |-> "pending", decoder |-> out.decoder,
                            value |-> Undefined]]
       /\ CASE out.type = "return" -> SettleQuery(i, "fulfilled", out.value)
            [] out.type = "throw"  -> SettleQuery(i, "rejected", out.value)
            [] OTHER -> UNCHANGED <<pstate, pvalue, jobs, firstSettled, firstFailed>>
  /\ UNCHANGED <<n, callerPc, aql, sent, fetchReason, aggVars, joinFailed>>

\* The body of exchange i has been read: the promise of res.json() or
\* res.text() settles, and with it a query promise that adopted it.
DecodeCompletes(i) ==
  /\ stage[i] = "decoding"
  /\ jobs = <<>>
  /\ stage' = [stage EXCEPT ![i] = "done"]
  /\ LET d == DecodeOutcome(bodyPromise[i].decoder, resp[i].body, i) IN
       /\ bodyPromise' = [bodyPromise EXCEPT ![i] =
                            [state |-> d.state, decoder |-> @.decoder,
                             value |-> d.value]]
       /\ IF pstate[i] = "pending"
            THEN SettleQuery(i, d.state, d.value)
            ELSE UNCHANGED <<pstate, pvalue, jobs, firstSettled, firstFailed>>
  /\ UNCHANGED <<n, callerPc, aql, sent, resp, fetchReason, aggVars, joinFailed>>

\* The next microtask: a reaction of Promise.all.
RunJob ==
  /\ jobs # <<>>
  /\ jobs' = Tail(jobs)
  /\ IF pstate[Head(jobs)] = "fulfilled"
       THEN ResolveElement(Head(jobs))
       ELSE RejectAggregate(Head(jobs))
  /\ UNCHANGED <<n, callerPc, aql, sent, httpVars, pstate, pvalue, logVars>>

----------------------------------------------------------------------------
(* Specifications *)

Next ==
  \/ \E q \in JoinAQLs : CDRsQuery(q)
  \/ All
  \/ Concat
  \/ \E i \in Clients, code \in JoinTransportCodes : FetchFails(i, code)
  \/ \E i \in Clients, res \in JoinResponses : FetchResponds(i, res)
  \/ \E i \in Clients : DecodeCompletes(i)
  \/ RunJob

\* A multi-repository query: cdrs.query(aql), then all(), then concat().
Spec == Init /\ [][Next]_vars

\* An I/O event of some exchange.
IOEvent ==
  \E i \in Clients :
    \/ \E code \in JoinTransportCodes : FetchFails(i, code)
    \/ \E res \in JoinResponses : FetchResponds(i, res)
    \/ DecodeCompletes(i)

\* The same, when every HTTP exchange and every body decode eventually
\* completes and every queued microtask eventually runs.
FairSpec == Spec /\ WF_vars(IOEvent) /\ WF_vars(RunJob)

SingleNext ==
  \/ \E q \in AQLs : CDRQuery(q)
  \/ \E code \in TransportCodes : FetchFails(1, code)
  \/ \E res \in Responses : FetchResponds(1, res)
  \/ DecodeCompletes(1)

\* A single-repository query: cdr.query(aql).
SingleSpec == SingleInit /\ [][SingleNext]_vars

----------------------------------------------------------------------------
(* Vocabulary of the properties *)

Settled(i) == pstate[i] \in {"fulfilled", "rejected"}

Failed == {i \in Clients : pstate[i] = "rejected"}

Joined == callerPc \in {"joined", "concatenated"}

AggSettled == aggState \in {"fulfilled", "rejected"}

\* Exchange i got a response (rather than none yet, or a transport failure).
Responded(i) == resp[i] # NoResponse

\* Exchange i ended in a transport failure.
TransportFailed(i) == fetchReason[i] # Undefined

NonOk(res) == res.status < 200 \/ res.status > 299

\* The failure the aggregate observes first: of the promises already rejected
\* when all() subscribed, the first in list order; otherwise the first to
\* reject.
FirstObserved ==
  IF joinFailed # {}
    THEN CHOOSE i \in joinFailed : \A j \in joinFailed : i <= j
    ELSE firstFailed

----------------------------------------------------------------------------
(* C1 *)

\* C1: once all() has been called and every reaction has run, if every
\* per-repository query succeeded with results r1..rN then the promise of
\* all().concat() is fulfilled with exactly <<r1, ..., rN>> in client-list
\* order, whatever the order the responses arrived in; for N = 0 it is
\* fulfilled with the empty sequence.  A fulfilled aggregate never holds
\* anything else.
C1_OrderPreserved ==
  /\ (Joined /\ jobs = <<>> /\ \A i \in Clients : pstate[i] = "fulfilled")
       => /\ aggState = "fulfilled"
          /\ aggValue = [i \in Clients |-> pvalue[i]]
  /\ aggState = "fulfilled"
       => /\ Len(aggValue) = n
          /\ \A i \in Clients : pstate[i] = "fulfilled" /\ aggValue[i] = pvalue[i]
  /\ (Joined /\ n = 0) => (aggState = "fulfilled" /\ aggValue = <<>>)

\* Three clients, the last one's response arrived first, the results differ,
\* and the aggregate is fulfilled.
C1_Witness ==
  /\ n = 3
  /\ callerPc = "concatenated"
  /\ aggState = "fulfilled"
  /\ firstSettled = 3
  /\ pvalue[1] # pvalue[3]
  /\ resp[1].status = 200

----------------------------------------------------------------------------
(* C2 *)

\* The state part of C2.
C2_State ==
  /\ aggState = "rejected"
       => /\ Failed # {}
          /\ aggReason = pvalue[FirstObserved]
          /\ aggValue = <<>>
  /\ (aggState = "rejected" /\ joinFailed = {})
       => aggReason = pvalue[firstFailed]
  /\ (aggState # "none" /\ jobs = <<>> /\ Failed # {}) => aggState = "rejected"
  /\ (aggState = "rejected" /\ Cardinality(Failed) = 1)
       => \A i \in Failed : aggReason = pvalue[i]

\* The step part of C2.
C2_Step ==
  aggState = "rejected"
    => /\ aggState' = "rejected"
       /\ aggReason' = aggReason
       /\ aggValue' = aggValue

\* C2: the aggregate of all().concat() is rejected as soon as the reaction to
\* the first failed per-repository promise has run (no I/O event comes in
\* between), and with that promise's reason: the first to reject in time when
\* all() was called before any rejection, as in query(aql).all().concat();
\* once rejected, no later outcome of any client changes the reason or
\* shows in the result.  When exactly one client fails, the reason is that
\* client's error.
C2_FailFast == C2_State /\ [][C2_State' /\ C2_Step]_vars

\* Client 3 fails first, client 1 fails later, client 2 succeeds; the
\* aggregate, joined before any failure, holds client 3's error.
C2_Witness ==
  /\ n = 3
  /\ joinFailed = {}
  /\ firstFailed = 3
  /\ pstate[1] = "rejected"
  /\ pstate[2] = "fulfilled"
  /\ jobs = <<>>
  /\ aggState = "rejected"
  /\ aggReason.id = 3
  /\ pvalue[1] # pvalue[3]

----------------------------------------------------------------------------
(* C3 *)

C3_State ==
  /\ aggState = "fulfilled" => \A i \in Clients : pstate[i] = "fulfilled"
  /\ \A i \in Clients : pstate[i] \in {"none", "pending", "fulfilled", "rejected"}
  /\ aggState \in {"none", "pending", "fulfilled", "rejected"}

C3_Step ==
  /\ \A i \in Clients :
       Settled(i) => (pstate'[i] = pstate[i] /\ pvalue'[i] = pvalue[i])
  /\ AggSettled
       => /\ aggState' = aggState
          /\ aggValue' = aggValue
          /\ aggReason' = aggReason

\* C3: the aggregate is fulfilled only if every per-repository query is
\* fulfilled (never while one is pending or rejected), and a per-repository
\* query or the aggregate, once fulfilled or rejected, keeps its state and
\* its value.
C3_StateMachine == C3_State /\ [][C3_State' /\ C3_Step]_vars

\* Client 1 has succeeded and its reaction has run, client 2 is still in
\* flight: the aggregate is pending, not fulfilled.
C3_Witness ==
  /\ n = 3
  /\ aggState = "pending"
  /\ pstate[1] = "fulfilled"
  /\ pstate[2] = "pending"
  /\ values[1] = pvalue[1]
  /\ remaining = 2

----------------------------------------------------------------------------
(* C4, C5, C6: the error path of a single query *)

\* The error payload as the documentation of CDRError describes it: the
\* parsed JSON under a JSON content-type, the raw string otherwise.
DecodedPayload(res) ==
  IF Includes(HeadersGet(res))
    THEN JsonParse(res.body).value
    ELSE TextValue(res.body)

\* C4: for a non-2xx response (with a content-type header and a body that
\* decodes), query fails with a CDRError whose message is
\* "<status> <statusText>" and whose body is the decoded payload itself.
C4_ErrorBodyDecoded ==
  \A i \in Clients :
    ( /\ Responded(i)
      /\ NonOk(resp[i])
      /\ HeadersGet(resp[i]) # NullHeader
      /\ Includes(HeadersGet(resp[i])) => JsonParse(resp[i].body).ok
      /\ Settled(i) )
    => /\ pstate[i] = "rejected"
       /\ pvalue[i].kind = "CDRError"
       /\ pvalue[i].message = Message(resp[i])
       /\ pvalue[i].body = DecodedPayload(resp[i])

\* C5: for a non-2xx response query fails with a CDRError and with nothing
\* else, whatever the headers.
C5_AlwaysRepositoryError ==
  \A i \in Clients :
    (Responded(i) /\ NonOk(resp[i]) /\ Settled(i))
    => /\ pstate[i] = "rejected"
       /\ pvalue[i].kind = "CDRError"

\* C6: when the body of a non-2xx response fails to decode, the failure the
\* caller of query receives is that decode failure.
C6_DecodeFailurePropagates ==
  \A i \in Clients :
    (Responded(i) /\ NonOk(resp[i]) /\ bodyPromise[i].state = "rejected")
    => /\ pstate[i] = "rejected"
       /\ pvalue[i] = bodyPromise[i].value

----------------------------------------------------------------------------
(* C7 *)

\* C7: on a 204 query is fulfilled with {} whatever the body holds, and the
\* body is never read or decoded; on any other 2xx it is fulfilled with the
\* JSON-decoded body of the response (so with {} only when the body decodes
\* to {}), once the decode has completed.
C7_NoContentAndSuccess ==
  \A i \in Clients :
    /\ (Responded(i) /\ resp[i].status = 204)
         => /\ pstate[i] = "fulfilled"
            /\ pvalue[i] = JsonValue({})
            /\ bodyPromise[i] = NoBody
            /\ stage[i] = "done"
    /\ (Responded(i) /\ Ok(resp[i]) /\ resp[i].status # 204 /\ pstate[i] = "fulfilled")
         => /\ JsonParse(resp[i].body).ok
            /\ pvalue[i] = JsonParse(resp[i].body).value
            /\ bodyPromise[i].decoder = "json"
            /\ bodyPromise[i].state = "fulfilled"
    /\ ( /\ Responded(i) /\ Ok(resp[i]) /\ resp[i].status # 204
         /\ stage[i] = "done" /\ JsonParse(resp[i].body).ok )
         => pstate[i] = "fulfilled"

\* A 204 that carries a body: fulfilled with {}, the body untouched.
C7_Witness ==
  /\ resp[1].status = 204
  /\ resp[1].body = BodyRows
  /\ resp[1].contentType = JsonContentType
  /\ pstate[1] = "fulfilled"
  /\ pvalue[1] = JsonValue({})
  /\ bodyPromise[1].state = "none"

----------------------------------------------------------------------------
(* C8 *)

\* C8: when fetch itself rejects, the promise of query is rejected with that
\* very reason, not a CDRError; in a multi-repository query that reason is
\* what the aggregate is rejected with when it is the first failure
\* observed, and the aggregate is rejected once its reactions have run.
C8_TransportFailureUnchanged ==
  /\ \A i \in Clients :
       TransportFailed(i)
         => /\ pstate[i] = "rejected"
            /\ pvalue[i] = fetchReason[i]
            /\ pvalue[i].kind = "FetchError"
  /\ (aggState = "rejected" /\ TransportFailed(FirstObserved))
       => aggReason = fetchReason[FirstObserved]
  /\ (Joined /\ jobs = <<>> /\ \E i \in Clients : TransportFailed(i))
       => aggState = "rejected"

\* Client 2's exchange fails at the transport first; client 1 later gets a
\* 401: the aggregate holds client 2's transport failure.
C8_Witness ==
  /\ n = 3
  /\ joinFailed = {}
  /\ firstFailed = 2
  /\ TransportFailed(2)
  /\ resp[1].status = 401
  /\ pstate[1] = "rejected"
  /\ aggState = "rejected"
  /\ aggReason = fetchReason[2]

----------------------------------------------------------------------------
(* C9 *)

C9_State ==
  /\ callerPc = "start" => sent = <<>>
  /\ callerPc # "start"
       => /\ Len(sent) = n
          /\ \A i \in Clients :
               Cardinality({k \in 1..Len(sent) : sent[k].client = i}) = 1
          /\ \A k \in 1..Len(sent) :
               /\ sent[k].body = {<<"aql", aql>>}
               /\ sent[k].method = "post"
               /\ sent[k].url = Url(sent[k].client) \o "/rest/v1/query"
  /\ \A i \in Clients :
       (stage[i] # "idle" \/ Responded(i) \/ pstate[i] # "none") => Len(sent) = n

C9_Step == callerPc # "start" => sent' = sent

\* C9: cdrs.query(aql) issues exactly one request per held client, each
\* carrying aql, all of them before any response is handled; whatever
\* succeeds or fails afterwards, and whether or not all() and concat() are
\* called, the requests issued stay exactly those.
C9_OneRequestPerClient == C9_State /\ [][C9_State' /\ C9_Step]_vars

\* Three clients, all exchanges over, one of them failed, all() and concat()
\* called: still three requests.
C9_Witness ==
  /\ n = 3
  /\ callerPc = "concatenated"
  /\ \A i \in Clients : stage[i] = "done"
  /\ pstate[1] = "rejected"
  /\ pstate[3] = "fulfilled"
  /\ Len(sent) = 3

----------------------------------------------------------------------------
(* C10 *)

\* C10: when every exchange and every decode eventually completes, the
\* promise of all().concat() eventually settles, for every n >= 0 and every
\* interleaving; while it is pending with no reaction queued, some
\* per-repository query is still pending and none has failed.
C10_Settles ==
  /\ [](  (aggState = "pending" /\ jobs = <<>>)
          => /\ \E i \in Clients : pstate[i] = "pending"
             /\ Failed = {} )
  /\ Joined ~> AggSettled

\* The aggregate has settled although one exchange is still in flight:
\* another one failed.
C10_Witness ==
  /\ n = 3
  /\ aggState = "rejected"
  /\ stage[1] = "inflight"
  /\ stage[2] = "decoding"
  /\ pstate[2] = "pending"
  /\ pstate[3] = "rejected"

====
